---- MODULE Spec2Model ----
(***************************************************************************)
(* Model of chatservice/internal/usecase/chatcompletionstream:             *)
(* ChatCompletionUseCase.Execute, one streaming chat-completion turn.      *)
(*                                                                         *)
(* Several Execute invocations run concurrently (one goroutine each).      *)
(* Each is cut at its blocking calls: the Store calls, the provider stream *)
(* open, each stream receive and each send on the Stream channel.          *)
(* Text is modelled as a sequence of tokens, so that concatenation is      *)
(* sequence concatenation and the token count is the length.               *)
(***************************************************************************)
EXTENDS Integers, Sequences, FiniteSets, TLC

\* ------------------------------------------------------------------ bounds
\* Chunks the provider sends on one stream before it ends or fails.
MaxDeltas == 2
\* Capacities of the Stream channel the caller makes: unbuffered, buffered.
SinkCaps == {0, 1}

\* The invocations of Execute, each on a goroutine of its own: they overlap
\* or follow one another.
Procs == {"p1", "p2"}

\* ------------------------------------------------------------------ inputs
\* Identifier a caller may invent; NewChat's identifiers are 1, 2, ...
CallerChatID == 0
\* The chat the Store holds when the program starts.
StoredChatID == 1
ChatIDs == 0..(StoredChatID + Cardinality(Procs))
UserIDs == {"alice"}
\* "x" stands for content the tokenizer cannot encode; the long message has
\* more tokens than any model's budget leaves.
UserMessages == {<<"u">>, <<"x">>, <<"u", "u", "u", "u", "u", "u">>}
\* The text of the k-th chunk of a stream, when it carries a choice.
DeltaTexts == <<"a", "b", "c", "d">>

ConfigA ==
    [Model |-> "gpt-a", ModelMaxTokens |-> 6, Temperature |-> 1, TopP |-> 1,
     N |-> 1, Stop |-> <<"stopA">>, MaxTokens |-> 5, PresencePenalty |-> 1,
     FrequencyPenalty |-> 1, InitialSystemMessage |-> <<"s">>]
ConfigB ==
    [Model |-> "gpt-b", ModelMaxTokens |-> 2, Temperature |-> 2, TopP |-> 2,
     N |-> 2, Stop |-> <<"stopB", "end">>, MaxTokens |-> 7, PresencePenalty |-> 2,
     FrequencyPenalty |-> 2, InitialSystemMessage |-> <<"s">>]
ConfigBad ==
    [Model |-> "", ModelMaxTokens |-> 2, Temperature |-> 1, TopP |-> 1,
     N |-> 1, Stop |-> <<>>, MaxTokens |-> 1, PresencePenalty |-> 1,
     FrequencyPenalty |-> 1, InitialSystemMessage |-> <<"s">>]
Configs == {ConfigA, ConfigB, ConfigBad}

NoConfig == [Model |-> "unread"]

\* ChatCompletionInputDTO. Config is read by createNewChat alone: the model
\* draws it there, when it is first read.
Inputs ==
    [ChatID : ChatIDs, UserID : UserIDs, UserMessage : UserMessages, Config : {NoConfig}]

NoInput == [ChatID |-> -1]
NoChat == [ID |-> -1]
NoStream == [open |-> FALSE]
NoResult == [returned |-> FALSE]
NoRequest == [Stream |-> FALSE]

\* ------------------------------------------------------------------ entities
RECURSIVE SumTokens(_)
SumTokens(msgs) ==
    IF msgs = <<>> THEN 0 ELSE Head(msgs).Tokens + SumTokens(Tail(msgs))

Tokenizable(content) == \A i \in 1..Len(content) : content[i] # "x"

NewModel(name, maxTokens) == [Name |-> name, MaxTokens |-> maxTokens]

\* The token count is computed once, from the content.
NewMessage(role, content, model) ==
    IF Tokenizable(content)
    THEN [ok |-> TRUE,
          msg |-> [Role |-> role, Content |-> content, Tokens |-> Len(content)]]
    ELSE [ok |-> FALSE, msg |-> [Role |-> role, Content |-> <<>>, Tokens |-> 0]]

\* AddMessage as it would be without the budget.
AddMessageUnbounded(c, msg) ==
    [ok |-> TRUE, chat |-> [c EXCEPT !.Messages = Append(c.Messages, msg)]]

\* Appends, or fails when the total would exceed the model's budget.
AddMessage(c, msg) ==
    IF SumTokens(c.Messages) + msg.Tokens <= c.Config.Model.MaxTokens
    THEN [ok |-> TRUE, chat |-> [c EXCEPT !.Messages = Append(c.Messages, msg)]]
    ELSE [ok |-> FALSE, chat |-> c]

\* NewChat as it would be if it dropped the initial message.
NewChatWithoutMessage(id, userID, initialMessage, chatConfig) ==
    [ok |-> TRUE,
     chat |-> [ID |-> id, UserID |-> userID, Config |-> chatConfig, Messages |-> <<>>]]

\* id is the identifier NewChat gives the chat: NewChat is not told the
\* caller's ChatID.
NewChat(id, userID, initialMessage, chatConfig) ==
    IF /\ initialMessage.Role = "system"
       /\ chatConfig.Model.Name # ""
       /\ chatConfig.Model.MaxTokens >= 0
    THEN [ok |-> TRUE,
          chat |-> [ID |-> id, UserID |-> userID, Config |-> chatConfig,
                    Messages |-> <<initialMessage>>]]
    ELSE [ok |-> FALSE, chat |-> NoChat]

\* createNewChat: MaxTokens is not copied from the input, so it keeps Go's
\* zero value.
createNewChat(id, in) ==
    LET model == NewModel(in.Config.Model, in.Config.ModelMaxTokens)
        chatConfig ==
            [Temperature |-> in.Config.Temperature,
             TopP |-> in.Config.TopP,
             N |-> in.Config.N,
             Stop |-> in.Config.Stop,
             MaxTokens |-> 0,
             PresencePenalty |-> in.Config.PresencePenalty,
             FrequencyPenalty |-> in.Config.FrequencyPenalty,
             Model |-> model]
        initialMessage == NewMessage("system", in.Config.InitialSystemMessage, model)
    IN  IF ~initialMessage.ok
        THEN [ok |-> FALSE, chat |-> NoChat]
        ELSE NewChat(id, in.UserID, initialMessage.msg, chatConfig)

\* ------------------------------------------------------------------ state
VARIABLES
    pc,            \* where each invocation of Execute stands
    input,         \* its ChatCompletionInputDTO
    chat,          \* its local *entity.Chat
    findErr,       \* what its FindChatById returned as error
    resp,          \* its provider stream: what is still to be received
    fullResponse,  \* its strings.Builder
    ret,           \* what it returned
    cancelled,     \* whether its ctx was cancelled during the receive/publish loop
    request,       \* the openai.ChatCompletionRequest it opened its stream with
    store,         \* the persisted chats, by chat ID
    sink,          \* the buffer of the Stream channel
    sinkCap,       \* the capacity of the Stream channel
    sinkOpen,      \* whether the Stream channel is open (not closed)
    nextID,        \* the next identifier NewChat hands out
    \* history, read by the properties only
    loaded,        \* the chat's messages as loaded or created
    recvd,         \* the chunks its stream delivered
    published,     \* the snapshots the channel accepted from it
    ops,           \* its collaborator calls, in order
    priorCreates,  \* the value of createsDone for its ChatID when it was called
    createsDone    \* chats created by the invocations that returned, by their ChatID

local == <<input, chat, findErr, resp, fullResponse, ret, cancelled, request>>
shared == <<store, sink, sinkCap, sinkOpen, nextID>>
history == <<loaded, recvd, published, ops, priorCreates, createsDone>>
vars == <<pc, local, shared, history>>

NoErr == [kind |-> "none", text |-> ""]

\* A chat an earlier run created and left with its system message.
StoredChat ==
    createNewChat(StoredChatID,
                  [ChatID |-> CallerChatID, UserID |-> "alice", UserMessage |-> <<"u">>,
                   Config |-> ConfigA]).chat

Init ==
    /\ pc = [p \in Procs |-> "Idle"]
    /\ input = [p \in Procs |-> NoInput]
    /\ chat = [p \in Procs |-> NoChat]
    /\ findErr = [p \in Procs |-> NoErr]
    /\ resp = [p \in Procs |-> NoStream]
    /\ fullResponse = [p \in Procs |-> <<>>]
    /\ ret = [p \in Procs |-> NoResult]
    /\ cancelled = [p \in Procs |-> FALSE]
    /\ request = [p \in Procs |-> NoRequest]
    /\ store = [id \in ChatIDs |-> IF id = StoredChatID THEN StoredChat ELSE NoChat]
    /\ sink = <<>>
    /\ sinkCap \in SinkCaps
    /\ sinkOpen = TRUE
    /\ nextID = StoredChatID + 1
    /\ loaded = [p \in Procs |-> <<>>]
    /\ recvd = [p \in Procs |-> <<>>]
    /\ published = [p \in Procs |-> <<>>]
    /\ ops = [p \in Procs |-> <<>>]
    /\ priorCreates = [p \in Procs |-> 0]
    /\ createsDone = [id \in ChatIDs |-> 0]

\* ------------------------------------------------------------------ collaborators
NotFoundTexts == {"Chat not found", "record not found"}
OtherTexts == {"Chat not found", "connection refused"}

\* ChatGateway.FindChatById: the chat when it is stored, an error of kind
\* NotFound when it is not, or any other failure. A call under a cancelled
\* context fails. The gateway is an interface: the text of an error is the
\* implementation's choice.
FindChatById(p, id) ==
    (IF store[id] # NoChat /\ ~cancelled[p]
     THEN {[chat |-> store[id], err |-> NoErr]} ELSE {})
    \cup (IF store[id] = NoChat /\ ~cancelled[p]
          THEN {[chat |-> NoChat, err |-> [kind |-> "NotFound", text |-> t]] :
                    t \in NotFoundTexts}
          ELSE {})
    \cup {[chat |-> NoChat, err |-> [kind |-> "Other", text |-> t]] : t \in OtherTexts}

\* Whether a ChatGateway write (CreateChat, SaveChat) or the stream open can
\* succeed: any call may fail, a call under a cancelled context does.
CallOutcomes(p) == IF cancelled[p] THEN {FALSE} ELSE {TRUE, FALSE}

\* The k-th chunk of a stream: its Choices, each choice reduced to its
\* Delta.Content. A chunk carries one choice, or none.
Chunks(k) == {[Choices |-> << <<DeltaTexts[k]>> >>], [Choices |-> <<>>]}
\* What a receive on the stream can yield is the provider's choice at that
\* moment: a chunk (at most MaxDeltas of them), end-of-stream or an error.
OpenStream == [open |-> TRUE]

\* ------------------------------------------------------------------ Execute
Op(name) == [op |-> name, msgs |-> <<>>]
OpChat(name, c) == [op |-> name, msgs |-> c.Messages]

\* line 58: the error text decides whether the chat is created
IsChatNotFound(err) == err.text = "Chat not found"

\* BuildRequest as it would be if it sent the last message alone.
BuildRequestLastMessage(c) ==
    [Model |-> c.Config.Model.Name,
     Messages |-> << [Role |-> c.Messages[Len(c.Messages)].Role,
                      Content |-> c.Messages[Len(c.Messages)].Content] >>,
     MaxTokens |-> c.Config.MaxTokens,
     Temperature |-> c.Config.Temperature,
     TopP |-> c.Config.TopP,
     PresencePenalty |-> c.Config.PresencePenalty,
     FrequencyPenalty |-> c.Config.FrequencyPenalty,
     Stop |-> c.Config.Stop,
     Stream |-> TRUE]

\* lines 81-101
BuildRequest(c) ==
    [Model |-> c.Config.Model.Name,
     Messages |-> [i \in 1..Len(c.Messages) |->
                      [Role |-> c.Messages[i].Role, Content |-> c.Messages[i].Content]],
     MaxTokens |-> c.Config.MaxTokens,
     Temperature |-> c.Config.Temperature,
     TopP |-> c.Config.TopP,
     PresencePenalty |-> c.Config.PresencePenalty,
     FrequencyPenalty |-> c.Config.FrequencyPenalty,
     Stop |-> c.Config.Stop,
     Stream |-> TRUE]

\* WriteString as it would be if it kept the last delta alone.
WriteStringOverwriting(full, text) == text

\* line 116: fullResponse.WriteString
WriteString(full, text) == full \o text

\* lines 117-121 and 136-140
OutputDTO(c, full) == [ChatID |-> c.ID, UserID |-> c.UserID, Content |-> full]

\* errors.New: every error Execute returns has the one dynamic type, wraps
\* nothing, and differs from the others by its text alone.
Error(msg) == [returned |-> TRUE, ok |-> FALSE, type |-> "*errors.errorString", err |-> msg]
Output(out) == [returned |-> TRUE, ok |-> TRUE, out |-> out]

Goto(p, label) == pc' = [pc EXCEPT ![p] = label]

Fail(p, msg) ==
    /\ Goto(p, "Failed")
    /\ ret' = [ret EXCEPT ![p] = Error(msg)]

Call(p, op) == ops' = [ops EXCEPT ![p] = Append(@, op)]

\* Identifiers a caller can pass: one of its own, or one a chat was given.
KnownChatIDs == {CallerChatID} \cup StoredChatID..(nextID - 1)

\* Execute is called. (The invocations are named in the order of their calls.)
Start(p) ==
    /\ pc[p] = "Idle"
    /\ p = CHOOSE q \in Procs : pc[q] = "Idle"
    /\ \E in \in Inputs :
          /\ in.ChatID \in KnownChatIDs
          /\ input' = [input EXCEPT ![p] = in]
          /\ priorCreates' = [priorCreates EXCEPT ![p] = createsDone[in.ChatID]]
    /\ Goto(p, "Loading")
    /\ UNCHANGED <<chat, findErr, resp, fullResponse, ret, cancelled, request>>
    /\ UNCHANGED <<shared, loaded, recvd, published, ops, createsDone>>

\* lines 56-58, 69-71
Loading(p) ==
    /\ pc[p] = "Loading"
    /\ Call(p, Op("FindChatById"))
    /\ \E r \in FindChatById(p, input[p].ChatID) :
          /\ findErr' = [findErr EXCEPT ![p] = r.err]
          /\ IF r.err = NoErr
             THEN /\ chat' = [chat EXCEPT ![p] = r.chat]
                  /\ loaded' = [loaded EXCEPT ![p] = r.chat.Messages]
                  /\ Goto(p, "Appending")
                  /\ UNCHANGED ret
             ELSE IF IsChatNotFound(r.err)
             THEN /\ Goto(p, "Creating")
                  /\ UNCHANGED <<chat, loaded, ret>>
             ELSE /\ Fail(p, "error fetching existing chat")
                  /\ UNCHANGED <<chat, loaded>>
    /\ UNCHANGED <<input, resp, fullResponse, cancelled, request>>
    /\ UNCHANGED <<shared, recvd, published, priorCreates, createsDone>>

\* lines 59-68
Creating(p) ==
    /\ pc[p] = "Creating"
    /\ \E cfg \in Configs :
          LET in == [input[p] EXCEPT !.Config = cfg]
              r == createNewChat(nextID, in)
          IN  /\ input' = [input EXCEPT ![p] = in]
              /\ IF ~r.ok
                 THEN /\ Fail(p, "error creating new chat")
                      /\ UNCHANGED <<chat, loaded, store, nextID, ops>>
                 ELSE /\ nextID' = nextID + 1
                      /\ Call(p, OpChat("CreateChat", r.chat))
                      /\ \E ok \in CallOutcomes(p) :
                            IF ok
                            THEN /\ store' = [store EXCEPT ![r.chat.ID] = r.chat]
                                 /\ chat' = [chat EXCEPT ![p] = r.chat]
                                 /\ loaded' = [loaded EXCEPT ![p] = r.chat.Messages]
                                 /\ Goto(p, "Appending")
                                 /\ UNCHANGED ret
                            ELSE /\ Fail(p, "error persisting new chat")
                                 /\ UNCHANGED <<chat, loaded, store>>
    /\ UNCHANGED <<findErr, resp, fullResponse, cancelled, request>>
    /\ UNCHANGED <<sink, sinkCap, sinkOpen, recvd, published, priorCreates, createsDone>>

\* line 73
UserMessage(p) == NewMessage("user", input[p].UserMessage, chat[p].Config.Model)

\* lines 73-80
Appending(p) ==
    /\ pc[p] = "Appending"
    /\ LET userMessage == UserMessage(p)
           added == AddMessage(chat[p], userMessage.msg)
       IN  IF ~userMessage.ok
           THEN Fail(p, "error creating user message") /\ UNCHANGED chat
           ELSE IF ~added.ok
           THEN Fail(p, "error adding new message") /\ UNCHANGED chat
           ELSE /\ chat' = [chat EXCEPT ![p] = added.chat]
                /\ Goto(p, "Requesting")
                /\ UNCHANGED ret
    /\ UNCHANGED <<input, findErr, resp, fullResponse, cancelled, request>>
    /\ UNCHANGED <<shared, history>>

\* lines 81-104
Requesting(p) ==
    /\ pc[p] = "Requesting"
    /\ Call(p, Op("CreateChatCompletionStream"))
    /\ request' = [request EXCEPT ![p] = BuildRequest(chat[p])]
    /\ \E ok \in CallOutcomes(p) :
          IF ok
          THEN /\ resp' = [resp EXCEPT ![p] = OpenStream]
               /\ Goto(p, "Streaming")
               /\ UNCHANGED ret
          ELSE /\ Fail(p, "Error create chat completion")
               /\ UNCHANGED resp
    /\ UNCHANGED <<input, chat, findErr, fullResponse, cancelled>>
    /\ UNCHANGED <<shared, loaded, recvd, published, priorCreates, createsDone>>

\* What one resp.Recv() leaves unchanged whatever it returns. Recv is given
\* no context: it is the provider's choice what a receive yields, also once
\* ctx is cancelled (an error, or what the connection had buffered).
RecvFrame(p) ==
    /\ pc[p] = "Streaming"
    /\ Call(p, Op("Recv"))
    /\ UNCHANGED <<input, chat, findErr, resp, cancelled, request>>
    /\ UNCHANGED <<shared, loaded, published, priorCreates, createsDone>>

\* lines 109-112: err is io.EOF
RecvEOF(p) ==
    /\ RecvFrame(p)
    /\ Goto(p, "Finalizing")
    /\ UNCHANGED <<fullResponse, recvd, ret>>

\* RecvError as it would be if the error path persisted what was accumulated.
RecvErrorSavingPartial(p) ==
    /\ pc[p] = "Streaming"
    /\ ops' = [ops EXCEPT ![p] = @ \o <<Op("Recv"), OpChat("SaveChat", chat[p])>>]
    /\ store' = [store EXCEPT ![chat[p].ID] = chat[p]]
    /\ Fail(p, "Error stream response")
    /\ UNCHANGED <<input, chat, findErr, resp, fullResponse, cancelled, request>>
    /\ UNCHANGED <<sink, sinkCap, sinkOpen, nextID>>
    /\ UNCHANGED <<loaded, recvd, published, priorCreates, createsDone>>

\* lines 113-115: any other err
RecvError(p) ==
    /\ RecvFrame(p)
    /\ Fail(p, "Error stream response")
    /\ UNCHANGED <<fullResponse, recvd>>

\* lines 109, 116: a chunk; response.Choices[0] panics when there is no choice
RecvDelta(p) ==
    /\ RecvFrame(p)
    /\ Len(recvd[p]) < MaxDeltas
    /\ \E response \in Chunks(Len(recvd[p]) + 1) :
          /\ recvd' = [recvd EXCEPT ![p] = Append(@, response)]
          /\ IF response.Choices = <<>>
             THEN /\ Goto(p, "Panicked")
                  /\ UNCHANGED fullResponse
             ELSE /\ fullResponse' =
                         [fullResponse EXCEPT ![p] = WriteString(@, response.Choices[1])]
                  /\ Goto(p, "Publishing")
    /\ UNCHANGED ret

Recv(p) == RecvEOF(p) \/ RecvError(p) \/ RecvDelta(p)

\* Publish as it would be with a send that gives up when the buffer is full
\* (select with a default case): the snapshot is dropped.
PublishNonBlocking(p) ==
    /\ pc[p] = "Publishing"
    /\ IF Len(sink) < sinkCap
       THEN LET r == OutputDTO(chat[p], fullResponse[p]) IN
               /\ sink' = Append(sink, r)
               /\ published' = [published EXCEPT ![p] = Append(@, r)]
               /\ Call(p, Op("Publish"))
       ELSE UNCHANGED <<sink, published, ops>>
    /\ Goto(p, "Streaming")
    /\ UNCHANGED <<local, store, sinkCap, sinkOpen, nextID>>
    /\ UNCHANGED <<loaded, recvd, priorCreates, createsDone>>

\* line 122, uc.Stream <- r, when the channel's buffer has room
Publish(p) ==
    /\ pc[p] = "Publishing"
    /\ Len(sink) < sinkCap
    /\ LET r == OutputDTO(chat[p], fullResponse[p]) IN
          /\ sink' = Append(sink, r)
          /\ published' = [published EXCEPT ![p] = Append(@, r)]
    /\ Call(p, Op("Publish"))
    /\ Goto(p, "Streaming")
    /\ UNCHANGED <<local, store, sinkCap, sinkOpen, nextID>>
    /\ UNCHANGED <<loaded, recvd, priorCreates, createsDone>>

\* line 122, uc.Stream <- r, handed to a consumer that is waiting to receive
\* (a receiver waits only while the buffer is empty)
PublishHandoff(p) ==
    /\ pc[p] = "Publishing"
    /\ sink = <<>>
    /\ published' =
          [published EXCEPT ![p] = Append(@, OutputDTO(chat[p], fullResponse[p]))]
    /\ Call(p, Op("Publish"))
    /\ Goto(p, "Streaming")
    /\ UNCHANGED <<local, shared>>
    /\ UNCHANGED <<loaded, recvd, priorCreates, createsDone>>

\* The consumer of the Stream channel takes the oldest buffered snapshot.
Consume ==
    /\ sink # <<>>
    /\ sink' = Tail(sink)
    /\ UNCHANGED <<pc, local, store, sinkCap, sinkOpen, nextID, history>>

\* AssistantMessage as it would be with the user's role.
AssistantMessageAsUser(p) == NewMessage("user", fullResponse[p], chat[p].Config.Model)

\* line 124
AssistantMessage(p) == NewMessage("assistant", fullResponse[p], chat[p].Config.Model)

\* lines 124-140
Finalizing(p) ==
    /\ pc[p] = "Finalizing"
    /\ LET assistant == AssistantMessage(p)
           added == AddMessage(chat[p], assistant.msg)
       IN  IF ~assistant.ok
           THEN /\ Fail(p, "Error creating assistant message")
                /\ UNCHANGED <<chat, store, ops>>
           ELSE IF ~added.ok
           THEN /\ Fail(p, "Error adding new message")
                /\ UNCHANGED <<chat, store, ops>>
           ELSE /\ chat' = [chat EXCEPT ![p] = added.chat]
                /\ Call(p, OpChat("SaveChat", added.chat))
                /\ \E ok \in CallOutcomes(p) :
                      IF ok
                      THEN /\ store' = [store EXCEPT ![added.chat.ID] = added.chat]
                           /\ Goto(p, "Done")
                           /\ ret' = [ret EXCEPT
                                         ![p] = Output(OutputDTO(added.chat,
                                                                 fullResponse[p]))]
                      ELSE /\ Fail(p, "Error saving chat")
                           /\ UNCHANGED store
    /\ UNCHANGED <<input, findErr, resp, fullResponse, cancelled, request>>
    /\ UNCHANGED <<sink, sinkCap, sinkOpen, nextID>>
    /\ UNCHANGED <<loaded, recvd, published, priorCreates, createsDone>>

\* How often invocation p has called the collaborator operation name.
NumCalls(p, name) == Cardinality({i \in 1..Len(ops[p]) : ops[p][i].op = name})

\* Invocation p created its chat: CreateChat was called and succeeded.
Created(p) == NumCalls(p, "CreateChat") > 0 /\ chat[p] # NoChat

\* Return as it would be if Execute deferred close(uc.Stream).
DeferredClose(p) == sinkOpen' = FALSE

\* What Execute has deferred to its return: nothing. No path of Execute
\* closes the Stream channel.
Deferred(p) == UNCHANGED sinkOpen

\* Execute has returned to its caller: its locals are gone.
Return(p) ==
    /\ pc[p] \in {"Done", "Failed"}
    /\ createsDone' = [createsDone EXCEPT
                          ![input[p].ChatID] = IF Created(p) THEN @ + 1 ELSE @]
    /\ Goto(p, "Returned")
    /\ input' = [input EXCEPT ![p] = NoInput]
    /\ chat' = [chat EXCEPT ![p] = NoChat]
    /\ findErr' = [findErr EXCEPT ![p] = NoErr]
    /\ resp' = [resp EXCEPT ![p] = NoStream]
    /\ fullResponse' = [fullResponse EXCEPT ![p] = <<>>]
    /\ ret' = [ret EXCEPT ![p] = NoResult]
    /\ cancelled' = [cancelled EXCEPT ![p] = FALSE]
    /\ request' = [request EXCEPT ![p] = NoRequest]
    /\ loaded' = [loaded EXCEPT ![p] = <<>>]
    /\ recvd' = [recvd EXCEPT ![p] = <<>>]
    /\ published' = [published EXCEPT ![p] = <<>>]
    /\ ops' = [ops EXCEPT ![p] = <<>>]
    /\ priorCreates' = [priorCreates EXCEPT ![p] = 0]
    /\ Deferred(p)
    /\ UNCHANGED <<store, sink, sinkCap, nextID>>

\* The caller cancels the context while Execute is in the receive/publish
\* loop. (Cancelled earlier, the next call that is given ctx fails: a run the
\* failing calls already cover.)
Cancel(p) ==
    /\ pc[p] \in {"Streaming", "Publishing"}
    /\ ~cancelled[p]
    /\ cancelled' = [cancelled EXCEPT ![p] = TRUE]
    /\ UNCHANGED <<pc, input, chat, findErr, resp, fullResponse, ret, request>>
    /\ UNCHANGED <<shared, history>>

\* The steps Execute takes by itself, with no consumer of the channel.
ExecuteStep(p) ==
    \/ Loading(p)
    \/ Creating(p)
    \/ Appending(p)
    \/ Requesting(p)
    \/ Recv(p)
    \/ Publish(p)
    \/ Finalizing(p)

Next ==
    \/ \E p \in Procs : Start(p)
    \/ \E p \in Procs : Loading(p)
    \/ \E p \in Procs : Creating(p)
    \/ \E p \in Procs : Appending(p)
    \/ \E p \in Procs : Requesting(p)
    \/ \E p \in Procs : Recv(p)
    \/ \E p \in Procs : Publish(p)
    \/ \E p \in Procs : PublishHandoff(p)
    \/ \E p \in Procs : Finalizing(p)
    \/ \E p \in Procs : Return(p)
    \/ \E p \in Procs : Cancel(p)
    \/ Consume

Spec == Init /\ [][Next]_vars

\* ------------------------------------------------------------------ properties
DeltaContent(chunk) == IF chunk.Choices = <<>> THEN <<>> ELSE chunk.Choices[1]

\* The concatenation of the first k delivered deltas.
RECURSIVE ConcatDeltas(_, _)
ConcatDeltas(chunks, k) ==
    IF k = 0 THEN <<>> ELSE ConcatDeltas(chunks, k - 1) \o DeltaContent(chunks[k])

\* The receive loop of p ended on an error of the stream.
StreamFailed(p) == pc[p] = "Failed" /\ ret[p] = Error("Error stream response")

\* The Store writes of p, in order.
Writes(p) == SelectSeq(ops[p], LAMBDA o : o.op \in {"CreateChat", "SaveChat"})

\* p holds a chat it loaded or created and has not yet saved.
InTurn(p) ==
    pc[p] \in {"Appending", "Requesting", "Streaming", "Publishing", "Finalizing"}

\* C1: every delta the stream has delivered to an invocation has its snapshot
\* in the Sink (the last one is being published while the invocation is at
\* the send), in arrival order, and the k-th snapshot's Content is the
\* concatenation of deltas 1..k.
C1_SnapshotPerDelta ==
    \A p \in Procs :
        /\ Len(published[p]) =
              IF pc[p] = "Publishing" THEN Len(recvd[p]) - 1 ELSE Len(recvd[p])
        /\ \A k \in 1..Len(published[p]) :
              published[p][k].Content = ConcatDeltas(recvd[p], k)

\* C2 as stated: an invocation whose stream failed has written nothing to the
\* Store, whether its chat existed or not.
C2_StoreUntouched == \A p \in Procs : StreamFailed(p) => Writes(p) = <<>>

\* C2 as amended: an invocation whose stream failed never called SaveChat; it
\* wrote nothing to the Store when FindChatById returned its chat, and
\* otherwise its one write is the CreateChat of the new chat, which holds the
\* system message alone.
C2_NoPartialCommit ==
    \A p \in Procs :
        StreamFailed(p) =>
            /\ NumCalls(p, "SaveChat") = 0
            /\ findErr[p] = NoErr => Writes(p) = <<>>
            /\ findErr[p] # NoErr =>
                  /\ Len(Writes(p)) = 1
                  /\ Writes(p)[1].op = "CreateChat"
                  /\ Len(Writes(p)[1].msgs) = 1
                  /\ Writes(p)[1].msgs[1].Role = "system"

\* Two streams failed after a delta: one on a loaded chat, one on a new chat.
C2_Witness ==
    \E p, q \in Procs :
        /\ StreamFailed(p) /\ findErr[p] = NoErr /\ Len(published[p]) >= 1
        /\ StreamFailed(q) /\ Created(q) /\ Len(published[q]) >= 1

\* C3: when Execute has returned without error, the chat it passed to
\* SaveChat holds the messages the chat had when loaded or created, unchanged
\* and in order, then the user message with the caller's input, then the
\* assistant message, and nothing else.
C3_AppendOnlyTurn ==
    \A p \in Procs :
        pc[p] = "Done" =>
            LET saved == ops[p][Len(ops[p])]
                n == Len(loaded[p])
            IN  /\ saved.op = "SaveChat"
                /\ NumCalls(p, "SaveChat") = 1
                /\ Len(saved.msgs) = n + 2
                /\ SubSeq(saved.msgs, 1, n) = loaded[p]
                /\ saved.msgs[n + 1].Role = "user"
                /\ saved.msgs[n + 1].Content = input[p].UserMessage
                /\ saved.msgs[n + 2].Role = "assistant"

\* A successful turn on a loaded chat that already held a whole turn.
C3_Witness ==
    \E p \in Procs :
        /\ pc[p] = "Done"
        /\ findErr[p] = NoErr
        /\ Len(loaded[p]) = 3
        /\ Len(published[p]) >= 1

\* C4: no two invocations hold the same chat between load and save.
C4_NoInterleavedTurns ==
    \A p, q \in Procs :
        (p # q /\ InTurn(p) /\ InTurn(q)) => chat[p].ID # chat[q].ID

\* C5: an invocation called with a ChatID for which an invocation that has
\* returned created the chat finds that chat (unless the lookup itself fails)
\* and never calls CreateChat.
C5_CreatedOnce ==
    \A p \in Procs :
        (priorCreates[p] > 0 /\ findErr[p].kind # "Other") =>
            NumCalls(p, "CreateChat") = 0

\* C6: Execute goes on to create a chat exactly when the error of
\* FindChatById is of kind NotFound, whatever its text.
C6_CreationByErrorKind ==
    \A p \in Procs :
        /\ pc[p] = "Creating" => findErr[p].kind = "NotFound"
        /\ (pc[p] = "Failed" /\ ret[p] = Error("error fetching existing chat")) =>
              findErr[p].kind # "NotFound"

\* C7: once FindChatById has failed with an error that is not NotFound,
\* Execute has returned an error and FindChatById is the only call it made.
C7_NothingAfterStoreError ==
    \A p \in Procs :
        findErr[p].kind = "Other" =>
            /\ pc[p] = "Failed"
            /\ \A i \in 1..Len(ops[p]) : ops[p][i].op = "FindChatById"

\* C8: when the receive loop has ended on anything but end-of-stream, after k
\* delivered deltas, Execute has returned an error, the Sink has exactly the
\* k snapshots and SaveChat was not called.
C8_ErrorAfterDeltas ==
    \A p \in Procs :
        (StreamFailed(p) \/ pc[p] = "Panicked") =>
            /\ pc[p] = "Failed"
            /\ Len(published[p]) = Len(recvd[p])
            /\ NumCalls(p, "SaveChat") = 0

\* C9: once ctx is cancelled in the receive/publish loop, Execute is never
\* stuck in the loop (it can take its next step by itself), never appends the
\* assistant message and never calls SaveChat.
C9_CancelStopsTurn ==
    \A p \in Procs :
        cancelled[p] =>
            /\ pc[p] \in {"Streaming", "Publishing"} => ENABLED ExecuteStep(p)
            /\ Len(chat[p].Messages) = Len(loaded[p]) + 1
            /\ NumCalls(p, "SaveChat") = 0

\* C10: a send on the Stream channel never waits for a consumer: an
\* invocation at the send can always complete it by itself.
C10_PublishNeverBlocks ==
    \A p \in Procs : pc[p] = "Publishing" => ENABLED Publish(p)

\* The positions, among the calls of p, of its calls of the operation name.
CallsOf(p, name) == {i \in 1..Len(ops[p]) : ops[p][i].op = name}

\* C11: when Execute has returned without error on a chat identifier that
\* FindChatById did not find, it called CreateChat exactly once, with a chat
\* holding the one system message built from InitialSystemMessage, and
\* SaveChat exactly once, with a chat holding three messages in the order
\* system, user, assistant; CreateChat came before the stream was opened and
\* SaveChat after the last receive.
C11_NewChatTurn ==
    \A p \in Procs :
        (pc[p] = "Done" /\ findErr[p] # NoErr) =>
            /\ Cardinality(CallsOf(p, "CreateChat")) = 1
            /\ Cardinality(CallsOf(p, "SaveChat")) = 1
            /\ Cardinality(CallsOf(p, "CreateChatCompletionStream")) = 1
            /\ \A i \in CallsOf(p, "CreateChat") :
                  /\ Len(ops[p][i].msgs) = 1
                  /\ ops[p][i].msgs[1].Role = "system"
                  /\ ops[p][i].msgs[1].Content = input[p].Config.InitialSystemMessage
                  /\ \A j \in CallsOf(p, "CreateChatCompletionStream") : i < j
            /\ \A i \in CallsOf(p, "SaveChat") :
                  /\ Len(ops[p][i].msgs) = 3
                  /\ ops[p][i].msgs[1].Role = "system"
                  /\ ops[p][i].msgs[2].Role = "user"
                  /\ ops[p][i].msgs[3].Role = "assistant"
                  /\ \A j \in CallsOf(p, "Recv") \cup CallsOf(p, "Publish") : j < i
                  /\ i = Len(ops[p])

\* A successful turn, with a delta, on an identifier the Store did not hold.
C11_Witness ==
    \E p \in Procs :
        /\ pc[p] = "Done"
        /\ findErr[p].kind = "NotFound"
        /\ store[input[p].ChatID] = NoChat
        /\ Len(published[p]) >= 1

\* C12: when Execute has returned without error, the Content it returned is
\* the concatenation of all the deltas its stream delivered, which is the
\* Content of the last snapshot the Sink accepted (empty when there was no
\* delta) and the content of the assistant message of the chat passed to
\* SaveChat.
C12_ReturnedContent ==
    \A p \in Procs :
        pc[p] = "Done" =>
            LET full == ConcatDeltas(recvd[p], Len(recvd[p]))
                saved == ops[p][Len(ops[p])]
                n == Len(published[p])
            IN  /\ ret[p].ok
                /\ ret[p].out.Content = full
                /\ n = Len(recvd[p])
                /\ IF n = 0 THEN full = <<>> ELSE published[p][n].Content = full
                /\ saved.op = "SaveChat"
                /\ saved.msgs[Len(saved.msgs)].Role = "assistant"
                /\ saved.msgs[Len(saved.msgs)].Content = full

\* A successful turn whose stream delivered two deltas.
C12_Witness ==
    \E p \in Procs :
        /\ pc[p] = "Done"
        /\ Len(recvd[p]) >= 2
        /\ ret[p].out.Content = <<"a", "b">>

\* C13: an invocation calls FindChatById, CreateChat, the stream open and
\* SaveChat at most once each, and SaveChat exactly once when it returns
\* without error; once FindChatById has failed with an error that is not
\* NotFound it makes no other call, and once it has returned an error it
\* makes no further call and no further publish.
C13_NoRetry ==
    /\ [](\A p \in Procs :
            /\ NumCalls(p, "FindChatById") <= 1
            /\ NumCalls(p, "CreateChat") <= 1
            /\ NumCalls(p, "CreateChatCompletionStream") <= 1
            /\ NumCalls(p, "SaveChat") <= 1
            /\ pc[p] = "Done" => NumCalls(p, "SaveChat") = 1
            /\ findErr[p].kind = "Other" => Len(ops[p]) = 1)
    /\ [][\A p \in Procs :
            pc[p] = "Failed" =>
                \/ pc'[p] = "Returned"
                \/ ops'[p] = ops[p] /\ published'[p] = published[p]]_vars

\* C14: an invocation has asked its stream for at most one delta more than
\* the Sink has accepted snapshots from it; while it is at the send it makes
\* no receive, and when the channel is unbuffered or full it can take no step
\* by itself: it waits for the consumer.
C14_Backpressure ==
    \A p \in Procs :
        /\ NumCalls(p, "Recv") <= Len(published[p]) + 1
        /\ pc[p] = "Publishing" =>
              /\ ~ENABLED Recv(p)
              /\ Len(sink) >= sinkCap => ~ENABLED ExecuteStep(p)

\* An invocation waits at the send of its second snapshot: the buffer of the
\* channel is full.
C14_Witness ==
    \E p \in Procs :
        /\ pc[p] = "Publishing"
        /\ sinkCap = 1
        /\ Len(sink) = sinkCap
        /\ Len(recvd[p]) = 2
        /\ Len(published[p]) = 1

\* The token budget of the chat p holds: its model's MaxTokens.
Budget(p) == chat[p].Config.Model.MaxTokens

\* C15: the chat an invocation holds, and every chat it passes to SaveChat,
\* has a total token count within its model's MaxTokens; when Execute
\* returned the error of a failed AddMessage, the user message (or the
\* assistant message) would have exceeded that budget, and SaveChat was not
\* called.
C15_TokenBudget ==
    \A p \in Procs :
        /\ chat[p] # NoChat => SumTokens(chat[p].Messages) <= Budget(p)
        /\ \A i \in CallsOf(p, "SaveChat") : SumTokens(ops[p][i].msgs) <= Budget(p)
        /\ (pc[p] = "Failed" /\ ret[p] = Error("error adding new message")) =>
              /\ SumTokens(chat[p].Messages) + UserMessage(p).msg.Tokens > Budget(p)
              /\ NumCalls(p, "SaveChat") = 0
        /\ (pc[p] = "Failed" /\ ret[p] = Error("Error adding new message")) =>
              /\ SumTokens(chat[p].Messages) + AssistantMessage(p).msg.Tokens > Budget(p)
              /\ NumCalls(p, "SaveChat") = 0

\* One invocation failed on appending its user message, another on appending
\* its assistant message after it published a snapshot.
C15_Witness ==
    \E p, q \in Procs :
        /\ pc[p] = "Failed" /\ ret[p] = Error("error adding new message")
        /\ pc[q] = "Failed" /\ ret[q] = Error("Error adding new message")
        /\ Len(published[q]) >= 1

\* The texts of the errors Execute returns when the provider fails.
ProviderErrorTexts == {"Error create chat completion", "Error stream response"}

\* C16: the error Execute returns when SaveChat failed differs from the
\* errors it returns when the provider failed by something other than its
\* text.
C16_ErrorKindByPhase ==
    \A p \in Procs :
        (pc[p] = "Failed" /\ ret[p].err = "Error saving chat") =>
            \A text \in ProviderErrorTexts : ret[p].type # Error(text).type

\* C17: whenever an invocation of Execute has ended, in Done or in Failed,
\* and after it has returned, the Stream channel is open.
C17_SinkStaysOpen ==
    (\E p \in Procs : pc[p] \in {"Done", "Failed", "Returned"}) => sinkOpen

\* An invocation returned without error, and a later turn on the chat it
\* saved published a snapshot on the channel and then failed.
C17_Witness ==
    \E p, q \in Procs :
        /\ pc[p] = "Returned"
        /\ pc[q] = "Failed"
        /\ Len(loaded[q]) = 3
        /\ Len(published[q]) >= 1
        /\ sinkOpen

\* C18: the provider request of an invocation that created its chat carries
\* the generation parameters of the caller's Config, each one unchanged.
C18_RequestFromConfig ==
    \A p \in Procs :
        (Created(p) /\ request[p] # NoRequest) =>
            /\ request[p].Model = input[p].Config.Model
            /\ request[p].Temperature = input[p].Config.Temperature
            /\ request[p].TopP = input[p].Config.TopP
            /\ request[p].Stop = input[p].Config.Stop
            /\ request[p].MaxTokens = input[p].Config.MaxTokens
            /\ request[p].PresencePenalty = input[p].Config.PresencePenalty
            /\ request[p].FrequencyPenalty = input[p].Config.FrequencyPenalty

\* C19: the message list of the request an invocation opened its stream with
\* is the chat's message sequence as loaded or created followed by the user
\* message of this turn, one request message per chat message with its role
\* and content; no stream is opened unless that append succeeded.
C19_RequestMessages ==
    \A p \in Procs :
        /\ request[p] # NoRequest =>
              LET n == Len(loaded[p]) IN
                 /\ Len(request[p].Messages) = n + 1
                 /\ \A i \in 1..n :
                       /\ request[p].Messages[i].Role = loaded[p][i].Role
                       /\ request[p].Messages[i].Content = loaded[p][i].Content
                 /\ request[p].Messages[n + 1] =
                       [Role |-> "user", Content |-> input[p].UserMessage]
        /\ NumCalls(p, "CreateChatCompletionStream") > 0 =>
              /\ request[p] # NoRequest
              /\ Len(chat[p].Messages) >= Len(loaded[p]) + 1
              /\ chat[p].Messages[Len(loaded[p]) + 1].Role = "user"

\* A stream was opened for the second turn of a chat: four request messages.
C19_Witness ==
    \E p \in Procs :
        /\ pc[p] = "Streaming"
        /\ Len(loaded[p]) = 3
        /\ Len(request[p].Messages) = 4

\* C20: no invocation of Execute ends in a panic.
C20_NoCrash == \A p \in Procs : pc[p] # "Panicked"

====
